---- MODULE Spec2Model ----
(***************************************************************************)
(* wikisplice: capture_wiki_screenshots, its crop geometry (q, clamp_crop, *)
(* the centering loop), the batch loop of main and write_jsx.              *)
(*                                                                         *)
(* Lengths are whole numbers of 1/60 CSS px ("units").  With dpr = 3 a     *)
(* device pixel is 20 units, so half of a quantized frame is a whole       *)
(* number of units and center_eps_px = 0.05 CSS px is 3 units.  A value    *)
(* that is not yet quantized (the frame size before q) is kept as an exact *)
(* fraction [n, d].  Floating-point rounding error is not modelled.        *)
(***************************************************************************)
EXTENDS Integers, Sequences, FiniteSets, TLC

\* ------------------------------------------------------------------ bounds
limit == 1
MaxBatches == 2
MaxMarks == 2
MaxTotal == 2
MaxPerPage == 1

\* ------------------------------------------------------- program constants
dpr == 3
vw == 1920
vh == 1080
target_word_px == 600
center_eps_px == 3
center_max_iter == 6
MinFrameCss == 32

\* framing_zoom = 1.0, kept as the fraction 4/4; its floor 0.25 is 1/4
framing_zoom == [n |-> 4, d |-> 4]
MinZoom == [n |-> 1, d |-> 4]

DevPx == 2 * 10
CssPx == dpr * DevPx

\* ----------------------------------------------------------- arithmetic
Max(a, b) == IF a >= b THEN a ELSE b
Min(a, b) == IF a <= b THEN a ELSE b
Abs(a) == IF a >= 0 THEN a ELSE -a

RECURSIVE GCD(_, _)
GCD(a, b) == IF b = 0 THEN a ELSE GCD(b, a % b)

\* the fraction n/d in lowest terms, d > 0
Frac(n, d) == LET g == GCD(Abs(n), d) IN [n |-> n \div g, d |-> d \div g]
Whole(v) == [n |-> v, d |-> 1]
FMul(a, b) == LET p == Frac(a.n, b.d)
                  r == Frac(b.n, a.d)
              IN Frac(p.n * r.n, p.d * r.d)
FLeq(a, b) == a.n * b.d <= b.n * a.d
FMax(a, b) == IF FLeq(b, a) THEN a ELSE b

\* Python's round(): nearest integer to n/d (d > 0), a tie going to the even one
RoundHalfEven(n, d) ==
    LET f == n \div d
        r == n % d
    IN IF 2 * r < d THEN f
       ELSE IF 2 * r > d THEN f + 1
       ELSE IF f % 2 = 0 THEN f ELSE f + 1

\* ---------------------------------------------------------------- q
\* max(1.0 / dpr, round(v * dpr) / dpr), v a fraction of units
q(v) == Max(DevPx, RoundHalfEven(v.n, v.d * DevPx) * DevPx)

\* ------------------------------------------------------------ clamp_crop
min_css == CssPx \div Max(1, dpr)

clamp_crop(x, y, cw, ch, page_w, page_h) ==
    LET cw1 == IF x < 0 THEN cw + x ELSE cw
        x1 == IF x < 0 THEN 0 ELSE x
        ch1 == IF y < 0 THEN ch + y ELSE ch
        y1 == IF y < 0 THEN 0 ELSE y
        cw2 == IF x1 + cw1 > page_w THEN page_w - x1 ELSE cw1
        ch2 == IF y1 + ch1 > page_h THEN page_h - y1 ELSE ch1
        cw3 == Max(min_css, cw2)
        ch3 == Max(min_css, ch2)
    IN [x |-> q(Whole(x1)), y |-> q(Whole(y1)),
        width |-> q(Whole(cw3)), height |-> q(Whole(ch3))]

\* ------------------------------------------------------------ frame size
\* cw = max(32.0, vw * (w_word / max(1.0, target_word_px))) * max(0.25, framing_zoom)
frame_cw_raw(w_word) ==
    LET base == FMax(Whole(MinFrameCss * CssPx),
                     FMul(Whole(w_word), Frac(vw, Max(1, target_word_px))))
    IN FMul(base, FMax(MinZoom, framing_zoom))

\* ch = cw / aspect, aspect = vw / vh
FrameChBad(cw_raw) == FMul(cw_raw, Frac(vw, vh))
frame_ch_raw(cw_raw) == FMul(cw_raw, Frac(vh, vw))

\* ------------------------------------------------------- centering loop
\* max(0.0, min(v, page - c)): lines 380-381 and 388-389
ClampOriginSwapped(v, page, c) == Min(0, Max(v, page - c))
clamp_origin(v, page, c) == Max(0, Min(v, page - c))

\* cx - (x + cw / 2.0): lines 384-385 and 391-392
residual(c, o, size) == c - (o + size \div 2)

\* abs(vx) <= center_eps_px and abs(vy) <= center_eps_px: line 386
ConvergedEither(vx, vy) == Abs(vx) <= center_eps_px \/ Abs(vy) <= center_eps_px
converged(vx, vy) == Abs(vx) <= center_eps_px /\ Abs(vy) <= center_eps_px

\* --------------------------------------------------------- MARK_MATCHES_JS
\* the number of ids returned for a page holding occ occurrences of the term
mark_matches(occ, maxMatches, highlightAll) ==
    IF highlightAll \/ maxMatches = 0 THEN occ
    ELSE IF maxMatches < 0 THEN 0
    ELSE Min(occ, maxMatches)

\* ------------------------------------------------------------- GET_RECT_JS
NullRect == [present |-> FALSE, x |-> 0, y |-> 0, w |-> 0, h |-> 0]
Rect(x, y, w, h) == [present |-> TRUE, x |-> x, y |-> y, w |-> w, h |-> h]

\* not r or r["w"] <= 0 or r["h"] <= 0: lines 335 and 370
NotRenderableNegative(rect) == ~rect.present \/ rect.w < 0 \/ rect.h < 0
not_renderable(rect) == ~rect.present \/ rect.w <= 0 \/ rect.h <= 0

\* ------------------------------------------------------------------ budget
\* max_total_matches is not None and len(saved) >= max_total_matches
BudgetOffByOne(s, total) == Len(s) > total
budget_reached(s, total) == Len(s) >= total

\* ------------------------------------------------------------ the records
SavedPrepend(s, rec) == <<rec>> \o s
saved_append(s, rec) == Append(s, rec)

write_jsx(imgs) ==
    [k \in 1..Len(imgs) |->
        [path |-> imgs[k].path, dx |-> imgs[k].dx_css, dy |-> imgs[k].dy_css]]

\* ------------------------------------------------------------------ inputs
Px(n) == n * CssPx
PageDims(w, h) == [w |-> w, h |-> h]

\* what the renderer may report for a match and for the page: two words in a
\* tall page, one of which sits too close to the top to be centered
SmallLayout ==
    [rects |-> {Rect(Px(700), Px(500), Px(100), Px(20)),
                Rect(Px(700), Px(20), Px(100), Px(20))},
     dims |-> {PageDims(Px(1920), Px(3000))}]

\* words of four widths (frames of 320, 323.2, 1920 and 2240 CSS px) at
\* positions inside the page, off the device-pixel grid, within 1/30 px of
\* the reachable range and far outside it, in a tall page and a page of one
\* viewport
RichLayout ==
    [rects |-> {Rect(x, y, w, Px(20)) :
                    x \in {Px(700), Px(700) + 6, Px(160) - Px(50) - 2, Px(10), Px(1850)},
                    y \in {Px(500), Px(20), Px(2990)},
                    w \in {Px(100), Px(101), Px(600), Px(700)}},
     dims |-> {PageDims(Px(1920), Px(3000)), PageDims(Px(1920), Px(1080))}]

\* GET_RECT_JS answers null for an element that is gone, and a rectangle
\* without area for one that is not laid out
NoArea == {NullRect, Rect(Px(700), Px(500), 0, 0)}

\* ------------------------------------------------------------------- state
VARIABLES
    args, layout,
    mpc, images, offset, batches, pages, jsx,
    pc, saved, i, j, mark_ids, max_total_matches, max_matches_per_page,
    page_w, page_h, r, cx, cy, cw, ch, desired_x, desired_y, pad_tries,
    x, y, it, res_dx, res_dy, clip,
    body_pad, overlay, files

inputVars == <<args, layout>>
mainVars == <<images, offset, batches, pages, jsx>>
loopVars == <<saved, i, j, mark_ids, max_total_matches, max_matches_per_page>>
pageVars == <<page_w, page_h>>
frameVars == <<r, cx, cy, cw, ch, desired_x, desired_y, pad_tries>>
solveVars == <<x, y, it, res_dx, res_dy, clip>>
domVars == <<body_pad, overlay>>
vars == <<inputVars, mpc, mainVars, pc, loopVars, pageVars, frameVars, solveVars,
          domVars, files>>

NoClip == [x |-> 0, y |-> 0, width |-> 0, height |-> 0]
NoPad == [top |-> 0, bottom |-> 0]

\* the locals of one pass of the match loop; every one is assigned again
\* before it is read, so a finished pass leaves them cleared
ClearTarget ==
    /\ r' = NullRect
    /\ cx' = 0 /\ cy' = 0 /\ cw' = 0 /\ ch' = 0
    /\ desired_x' = 0 /\ desired_y' = 0 /\ pad_tries' = 0
    /\ x' = 0 /\ y' = 0 /\ it' = 0 /\ res_dx' = 0 /\ res_dy' = 0
    /\ clip' = NoClip

InitState ==
    /\ mpc = "loop" /\ images = <<>> /\ offset = 0 /\ batches = 0 /\ pages = 0
    /\ jsx = <<>>
    /\ pc = "idle" /\ saved = <<>> /\ i = 0 /\ j = 0 /\ mark_ids = 0
    /\ max_total_matches = 0 /\ max_matches_per_page = 0
    /\ page_w = 0 /\ page_h = 0
    /\ r = NullRect /\ cx = 0 /\ cy = 0 /\ cw = 0 /\ ch = 0
    /\ desired_x = 0 /\ desired_y = 0 /\ pad_tries = 0
    /\ x = 0 /\ y = 0 /\ it = 0 /\ res_dx = 0 /\ res_dy = 0 /\ clip = NoClip
    /\ body_pad = NoPad /\ overlay = FALSE /\ files = <<>>

\* main's argparse namespace: the options the capture loop reads
Init ==
    /\ args \in [max_total_matches : 0..MaxTotal,
                 max_matches_per_page : 0..MaxPerPage,
                 pad_to_center : BOOLEAN,
                 highlight_all : BOOLEAN]
    /\ layout = SmallLayout
    /\ InitState

\* one capture per run, over the rich layout
InitGeom ==
    /\ args \in [max_total_matches : {1},
                 max_matches_per_page : {1},
                 pad_to_center : BOOLEAN,
                 highlight_all : {FALSE}]
    /\ layout = RichLayout
    /\ InitState

\* ==================================================================== main
\* lines 577-603: one pass of `while True` up to the call of
\* capture_wiki_screenshots.  wiki_search_batch answers with 0..limit pages;
\* the search has no more results after MaxBatches calls.
MainSearch ==
    /\ mpc = "loop"
    /\ LET remaining == Max(0, args.max_total_matches - Len(images))
       IN IF remaining = 0
          THEN /\ mpc' = "after_loop"
               /\ UNCHANGED <<batches, pages, pc, loopVars, domVars>>
          ELSE \E n \in 0..(IF batches < MaxBatches THEN limit ELSE 0) :
                 /\ batches' = Min(batches + 1, MaxBatches)
                 /\ pages' = n
                 /\ IF n = 0
                    THEN /\ mpc' = "after_loop"
                         /\ UNCHANGED <<pc, loopVars, domVars>>
                    ELSE /\ mpc' = "capturing"
                         /\ pc' = "for_pages"
                         /\ saved' = <<>>
                         /\ i' = 1 /\ j' = 0 /\ mark_ids' = 0
                         /\ max_total_matches' = remaining
                         /\ max_matches_per_page' =
                                Min(args.max_matches_per_page, remaining)
                         /\ body_pad' = NoPad /\ overlay' = FALSE
    /\ UNCHANGED <<inputVars, images, offset, jsx, pageVars, frameVars, solveVars, files>>

\* lines 604-607: capture_wiki_screenshots returned `saved`
MainExtendFront(imgs) == imgs \o images
main_extend(imgs) == images \o imgs

MainExtend ==
    /\ mpc = "capturing" /\ pc = "return"
    /\ images' = main_extend(saved)
    /\ offset' = offset + pages
    /\ mpc' = IF pages < limit THEN "after_loop" ELSE "loop"
    /\ pc' = "idle"
    /\ saved' = <<>> /\ i' = 0 /\ j' = 0 /\ mark_ids' = 0
    /\ max_total_matches' = 0 /\ max_matches_per_page' = 0
    /\ page_w' = 0 /\ page_h' = 0
    /\ UNCHANGED <<inputVars, batches, pages, jsx, frameVars, solveVars, domVars, files>>

\* lines 609-610: sys.exit("No images available")
MainNoImages ==
    /\ mpc = "after_loop" /\ images = <<>>
    /\ mpc' = "exit"
    /\ UNCHANGED <<inputVars, mainVars, pc, loopVars, pageVars, frameVars, solveVars,
                   domVars, files>>

\* lines 612-613
MainWriteJsx ==
    /\ mpc = "after_loop" /\ images # <<>>
    /\ jsx' = write_jsx(images)
    /\ mpc' = "done"
    /\ UNCHANGED <<inputVars, images, offset, batches, pages, pc, loopVars, pageVars,
                   frameVars, solveVars, domVars, files>>

\* ================================================ capture_wiki_screenshots
Capturing(at) == mpc = "capturing" /\ pc = at

\* an exception nothing catches: it leaves capture_wiki_screenshots and main
Raise ==
    /\ pc' = "raised" /\ mpc' = "raised"
    /\ UNCHANGED <<inputVars, mainVars, loopVars, pageVars, frameVars, solveVars, files>>

\* `continue` of the page loop
NextPage ==
    /\ pc' = "for_pages" /\ i' = i + 1 /\ j' = 0 /\ mark_ids' = 0
    /\ page_w' = 0 /\ page_h' = 0
    /\ ClearTarget

\* `continue` of the match loop
NextMatch ==
    /\ pc' = "for_marks" /\ j' = j + 1
    /\ ClearTarget

\* lines 285-287: the page loop is exhausted, or the budget check breaks it
PagesDone ==
    /\ Capturing("for_pages")
    /\ i > pages \/ budget_reached(saved, max_total_matches)
    /\ pc' = "return"
    /\ UNCHANGED <<inputVars, mpc, mainVars, loopVars, pageVars, frameVars, solveVars,
                   domVars, files>>

\* lines 288-292: page.goto raises; the page is skipped
GotoFail ==
    /\ Capturing("for_pages")
    /\ i <= pages /\ ~budget_reached(saved, max_total_matches)
    /\ i' = i + 1
    /\ UNCHANGED <<inputVars, mpc, mainVars, pc, saved, j, mark_ids, max_total_matches,
                   max_matches_per_page, pageVars, frameVars, solveVars, domVars, files>>

\* lines 288-289: page.goto loads a new document
GotoOk ==
    /\ Capturing("for_pages")
    /\ i <= pages /\ ~budget_reached(saved, max_total_matches)
    /\ pc' = "loaded"
    /\ body_pad' = NoPad /\ overlay' = FALSE
    /\ UNCHANGED <<inputVars, mpc, mainVars, loopVars, pageVars, frameVars, solveVars,
                   files>>

\* lines 295-328: hide chrome, wait for fonts, mark the matches, measure the page
MarkPage ==
    /\ Capturing("loaded")
    /\ LET remaining == Max(0, max_total_matches - Len(saved))
           page_max == Min(max_matches_per_page, remaining)
       IN IF remaining = 0
          THEN /\ pc' = "return"
               /\ UNCHANGED <<i, j, mark_ids, pageVars, frameVars, solveVars>>
          ELSE \E occ \in 0..MaxMarks :
                 LET ids == mark_matches(occ, page_max, args.highlight_all)
                 IN IF ids = 0
                    THEN NextPage
                    ELSE /\ mark_ids' = ids
                         /\ \E dims \in layout.dims :
                                page_w' = dims.w /\ page_h' = dims.h
                         /\ j' = 1
                         /\ pc' = "for_marks"
                         /\ UNCHANGED <<i, frameVars, solveVars>>
    /\ UNCHANGED <<inputVars, mpc, mainVars, saved, max_total_matches,
                   max_matches_per_page, domVars, files>>

\* lines 330-332: the match loop is exhausted, or the budget check breaks it
MarksDone ==
    /\ Capturing("for_marks")
    /\ j > mark_ids \/ budget_reached(saved, max_total_matches)
    /\ NextPage
    /\ UNCHANGED <<inputVars, mpc, mainVars, saved, max_total_matches,
                   max_matches_per_page, domVars, files>>

\* lines 334-336: GET_RECT_JS finds no element, or one without area
MeasureSkip ==
    /\ Capturing("for_marks")
    /\ j <= mark_ids /\ ~budget_reached(saved, max_total_matches)
    /\ \E rect \in layout.rects \cup NoArea : not_renderable(rect)
    /\ NextMatch
    /\ UNCHANGED <<inputVars, mpc, mainVars, saved, i, mark_ids, max_total_matches,
                   max_matches_per_page, pageVars, domVars, files>>

\* lines 338-352: the frame for a measured rectangle
Frame(rect) ==
    LET w_word == rect.w
        raw == frame_cw_raw(w_word)
    IN /\ r' = rect
       /\ cx' = rect.x + w_word \div 2
       /\ cy' = rect.y + rect.h \div 2
       /\ cw' = q(raw)
       /\ ch' = q(frame_ch_raw(raw))
       /\ desired_x' = cx' - cw' \div 2
       /\ desired_y' = cy' - ch' \div 2
       /\ pad_tries' = 0

\* lines 334-352
Measure ==
    /\ Capturing("for_marks")
    /\ j <= mark_ids /\ ~budget_reached(saved, max_total_matches)
    /\ \E rect \in layout.rects \cup NoArea :
         /\ ~not_renderable(rect)
         /\ Frame(rect)
    /\ pc' = "framed"
    /\ UNCHANGED <<inputVars, mpc, mainVars, loopVars, pageVars, solveVars, domVars,
                   files>>

\* line 354: pad_to_center is off
SkipPad ==
    /\ Capturing("framed")
    /\ ~args.pad_to_center
    /\ pc' = "solve"
    /\ UNCHANGED <<inputVars, mpc, mainVars, loopVars, pageVars, frameVars, solveVars,
                   domVars, files>>

\* lines 357-358
pad_top(dy) == Max(0, -dy)
pad_bottom(dy, h, ph) == Max(0, dy + h - ph)

\* lines 354-359: the page is measured again and the frame needs no padding
PadNotNeeded ==
    /\ Capturing("framed")
    /\ args.pad_to_center
    /\ \E dims \in layout.dims :
         /\ page_w' = dims.w /\ page_h' = dims.h
         /\ pad_top(desired_y) = 0 /\ pad_bottom(desired_y, ch, dims.h) = 0
    /\ pc' = "solve"
    /\ UNCHANGED <<inputVars, mpc, mainVars, loopVars, frameVars, solveVars, domVars,
                   files>>

\* lines 354-378: `if pad_to_center:` is no loop; with the match measured
\* again, control falls through to the solve
PadAgain == "framed"
after_pad == "solve"

\* lines 354-376: the body padding is set and the match is measured once more
PadInject ==
    /\ Capturing("framed")
    /\ args.pad_to_center
    /\ \E dims \in layout.dims :
         /\ page_w' = dims.w /\ page_h' = dims.h
         /\ pad_top(desired_y) # 0 \/ pad_bottom(desired_y, ch, dims.h) # 0
         /\ body_pad' = [top |-> pad_top(desired_y),
                         bottom |-> pad_bottom(desired_y, ch, dims.h)]
    /\ \E rect \in layout.rects \cup NoArea :
         /\ ~not_renderable(rect)
         /\ r' = rect
         /\ cx' = rect.x + rect.w \div 2
         /\ cy' = rect.y + rect.h \div 2
         /\ desired_x' = cx' - cw \div 2
         /\ desired_y' = cy' - ch \div 2
    /\ pad_tries' = pad_tries + 1
    /\ pc' = after_pad
    /\ UNCHANGED <<inputVars, mpc, mainVars, loopVars, cw, ch, solveVars, overlay, files>>

\* lines 354-371: after the padding is set the match has no rectangle any more
PadLost ==
    /\ Capturing("framed")
    /\ args.pad_to_center
    /\ \E dims \in layout.dims :
         /\ page_w' = dims.w /\ page_h' = dims.h
         /\ pad_top(desired_y) # 0 \/ pad_bottom(desired_y, ch, dims.h) # 0
         /\ body_pad' = [top |-> pad_top(desired_y),
                         bottom |-> pad_bottom(desired_y, ch, dims.h)]
    /\ \E rect \in layout.rects \cup NoArea : not_renderable(rect)
    /\ NextMatch
    /\ UNCHANGED <<inputVars, mpc, mainVars, saved, i, mark_ids, max_total_matches,
                   max_matches_per_page, overlay, files>>

\* lines 378-381: the page is measured and the origin placed
SolveInit ==
    /\ Capturing("solve")
    /\ \E dims \in layout.dims :
         /\ page_w' = dims.w /\ page_h' = dims.h
         /\ x' = clamp_origin(desired_x, dims.w, cw)
         /\ y' = clamp_origin(desired_y, dims.h, ch)
    /\ it' = 0
    /\ pc' = "iter"
    /\ UNCHANGED <<inputVars, mpc, mainVars, loopVars, frameVars, res_dx, res_dy, clip,
                   domVars, files>>

\* lines 383-387: a pass of the loop finds the center within center_eps_px
SolveConverged ==
    /\ Capturing("iter")
    /\ it < center_max_iter
    /\ converged(residual(cx, x, cw), residual(cy, y, ch))
    /\ it' = it + 1
    /\ pc' = "solved"
    /\ UNCHANGED <<inputVars, mpc, mainVars, loopVars, pageVars, frameVars, x, y,
                   res_dx, res_dy, clip, domVars, files>>

\* lines 383-389: a pass of the loop moves the origin by the whole residual
SolveStep ==
    /\ Capturing("iter")
    /\ it < center_max_iter
    /\ LET vx == residual(cx, x, cw)
           vy == residual(cy, y, ch)
       IN /\ ~converged(vx, vy)
          /\ x' = clamp_origin(x + vx, page_w, cw)
          /\ y' = clamp_origin(y + vy, page_h, ch)
    /\ it' = it + 1
    /\ UNCHANGED <<inputVars, mpc, mainVars, pc, loopVars, pageVars, frameVars,
                   res_dx, res_dy, clip, domVars, files>>

\* line 383: range(center_max_iter) is used up
SolveExhausted ==
    /\ Capturing("iter")
    /\ it >= center_max_iter
    /\ pc' = "solved"
    /\ UNCHANGED <<inputVars, mpc, mainVars, loopVars, pageVars, frameVars, solveVars,
                   domVars, files>>

\* lines 391-398: the residual is taken, then the crop is clamped and quantized
ClampCrop ==
    /\ Capturing("solved")
    /\ res_dx' = residual(cx, x, cw)
    /\ res_dy' = residual(cy, y, ch)
    /\ clip' = clamp_crop(x, y, cw, ch, page_w, page_h)
    /\ x' = clip'.x /\ y' = clip'.y /\ cw' = clip'.width /\ ch' = clip'.height
    /\ pc' = "shot"
    /\ UNCHANGED <<inputVars, mpc, mainVars, loopVars, pageVars, r, cx, cy, desired_x,
                   desired_y, pad_tries, it, domVars, files>>

\* lines 396-397: the file name carries the page index, the match index and the title
fpath == [i |-> i, j |-> j, title |-> offset + i]

\* lines 435-441
record == [path |-> fpath, dx_css |-> res_dx, dy_css |-> res_dy,
           cw_css |-> cw, ch_css |-> ch]

\* lines 400, 435-442: page.screenshot writes the file
ShotOk ==
    /\ Capturing("shot")
    /\ files' = Append(files, fpath)
    /\ saved' = saved_append(saved, record)
    /\ NextMatch
    /\ UNCHANGED <<inputVars, mpc, mainVars, i, mark_ids, max_total_matches,
                   max_matches_per_page, pageVars, domVars>>

\* lines 401-425: "outside the resulting image"; the py_capture_* element is created
ShotOutside ==
    /\ Capturing("shot")
    /\ overlay' = TRUE
    /\ pc' = "element"
    /\ UNCHANGED <<inputVars, mpc, mainVars, loopVars, pageVars, frameVars, solveVars,
                   body_pad, files>>

\* lines 432-433: any other error of page.screenshot is raised again
ShotRaises ==
    /\ Capturing("shot")
    /\ Raise
    /\ UNCHANGED domVars

\* lines 426-442: handle.screenshot writes the file, the element is removed
ElementShotOk ==
    /\ Capturing("element")
    /\ files' = Append(files, fpath)
    /\ overlay' = FALSE
    /\ saved' = saved_append(saved, record)
    /\ NextMatch
    /\ UNCHANGED <<inputVars, mpc, mainVars, i, mark_ids, max_total_matches,
                   max_matches_per_page, pageVars, body_pad>>

\* lines 426-429: query_selector finds nothing, or handle.screenshot raises
ElementShotRaises ==
    /\ Capturing("element")
    /\ Raise
    /\ UNCHANGED domVars

\* page.evaluate raises (a timeout): lines 295-327, 334, 355 and 378
EvaluateRaises ==
    /\ mpc = "capturing"
    /\ \/ pc = "loaded"
       \/ pc = "for_marks" /\ j <= mark_ids /\ ~budget_reached(saved, max_total_matches)
       \/ pc = "framed" /\ args.pad_to_center
       \/ pc = "solve"
    /\ Raise
    /\ UNCHANGED domVars

Next ==
    \/ MainSearch \/ MainExtend \/ MainNoImages \/ MainWriteJsx
    \/ PagesDone \/ GotoFail \/ GotoOk \/ MarkPage
    \/ MarksDone \/ MeasureSkip \/ Measure
    \/ SkipPad \/ PadNotNeeded \/ PadInject \/ PadLost
    \/ SolveInit \/ SolveConverged \/ SolveStep \/ SolveExhausted
    \/ ClampCrop \/ ShotOk \/ ShotOutside \/ ShotRaises
    \/ ElementShotOk \/ ElementShotRaises \/ EvaluateRaises

Spec == Init /\ [][Next]_vars

SpecGeom == InitGeom /\ [][Next]_vars

\* ================================================================== claims
\* a device pixel, 1 / dpr CSS px, in units
OneOverDpr == CssPx \div dpr

\* C1: every crop handed to page.screenshot lies inside the page: x' >= 0,
\* y' >= 0, x' + w' <= page_w and y' + h' <= page_h, for a page of at least
\* 1/dpr in both directions.
C1_ClampContainment ==
    (Capturing("shot") /\ page_w >= OneOverDpr /\ page_h >= OneOverDpr)
        => /\ clip.x >= 0 /\ clip.y >= 0
           /\ clip.x + clip.width <= page_w
           /\ clip.y + clip.height <= page_h

\* C2: once the overlay fallback was taken, the py_capture_* element is gone
\* on every way out of the fallback, the failure of the element screenshot
\* included: the element exists only while the element screenshot is pending.
C2_OverlayReleased == overlay => Capturing("element")

\* C3: no renderer error on one target or page leaves
\* capture_wiki_screenshots as an exception.
C3_NoEscape == pc # "raised"

\* C4: with pad_to_center, a match is measured (line 334) only while the
\* body carries no padding injected for an earlier match of the page.
C4_PaddingReverted == Capturing("framed") => body_pad = NoPad

\* the budget as a property of one state: the records of this call, the
\* images of all batches and the files written stay within the budget, and
\* the code past page.goto and past the budget check of the match loop is
\* reached only with budget left
C5_BudgetState ==
    /\ mpc = "capturing" => Len(saved) <= max_total_matches
    /\ Len(images) + Len(saved) <= args.max_total_matches
    /\ Len(files) <= args.max_total_matches
    /\ (mpc = "capturing" /\ pc \in {"loaded", "framed", "solve", "iter", "solved",
                                      "shot", "element"})
           => Len(saved) < max_total_matches

\* a step of the page loop that calls page.goto
C5_Navigates ==
    /\ Capturing("for_pages")
    /\ pc' = "loaded" \/ (pc' = "for_pages" /\ i' = i + 1)

PathsOf(s) == [k \in 1..Len(s) |-> s[k].path]
PathBefore(a, b) == a.title < b.title \/ (a.title = b.title /\ a.j < b.j)

C6_CaptureOrder ==
    LET all == images \o saved
    IN /\ PathsOf(all) = files
       /\ \A k \in 1..Len(all) : \A l \in 1..Len(all) :
              k < l => PathBefore(all[k].path, all[l].path)
       /\ mpc = "done" =>
              /\ PathsOf(jsx) = files
              /\ \A k \in 1..Len(jsx) :
                     jsx[k].dx = images[k].dx_css /\ jsx[k].dy = images[k].dy_css

\* a script of two captures, taken in two batches
C6_Witness ==
    /\ mpc = "done" /\ Len(jsx) = 2
    /\ jsx[1].path.title # jsx[2].path.title

\* the target center lies strictly inside the reachable center range
StrictlyInside ==
    /\ cw \div 2 < cx /\ cx < page_w - cw \div 2
    /\ ch \div 2 < cy /\ cy < page_h - ch \div 2

\* the target center lies outside the reachable center range
Outside ==
    ~ (/\ cw \div 2 <= cx /\ cx <= page_w - cw \div 2
       /\ ch \div 2 <= cy /\ cy <= page_h - ch \div 2)

\* C7: for a target center strictly inside the reachable range the loop ends
\* with both residuals within center_eps_px after at most center_max_iter
\* passes.
C7_Convergence ==
    (Capturing("solved") /\ StrictlyInside)
        => /\ Abs(cx - (x + cw \div 2)) <= center_eps_px
           /\ Abs(cy - (y + ch \div 2)) <= center_eps_px
           /\ it <= center_max_iter

\* an inside target whose origin is off the device-pixel grid
C7_Witness ==
    /\ Capturing("solved") /\ StrictlyInside
    /\ it = 1 /\ x % DevPx # 0

\* C8 as stated: every target center outside the reachable range makes the
\* loop run exactly center_max_iter passes.
C8_ExactlyBudget ==
    (Capturing("solved") /\ Outside) => it = center_max_iter

\* the frame placed at the clamped origin misses the target center by more
\* than center_eps_px in some direction
BestX == Max(0, Min(desired_x, page_w - cw))
BestY == Max(0, Min(desired_y, page_h - ch))
Far ==
    \/ Abs(cx - (BestX + cw \div 2)) > center_eps_px
    \/ Abs(cy - (BestY + ch \div 2)) > center_eps_px

\* C8 amended: the loop never runs more than center_max_iter passes and ends
\* with the origin clamped (the frame at the clamped desired origin); it runs
\* exactly center_max_iter passes when that frame misses the target center
\* by more than center_eps_px, and a single pass otherwise.
C8_Boundary ==
    Capturing("solved")
        => /\ it <= center_max_iter
           /\ x = BestX /\ y = BestY
           /\ x >= 0 /\ y >= 0
           /\ Far => it = center_max_iter
           /\ ~Far => it = 1

\* a frame wider than the page, its target out of reach
C8_Witness ==
    /\ Capturing("solved") /\ Outside /\ Far
    /\ cw > page_w
    /\ it = center_max_iter
    /\ cx - (x + cw \div 2) # 0

\* C9: the residual that is recorded is the offset of the target center from
\* the center of the crop that is captured and recorded.
C9_ResidualIsAchieved ==
    Capturing("shot")
        => /\ res_dx = cx - (clip.x + cw \div 2)
           /\ res_dy = cy - (clip.y + ch \div 2)

\* C10 as stated: the crop handed to the raster backend has exactly the
\* frame's aspect ratio.
C10_ExactAspect ==
    Capturing("shot") => clip.width * vh = clip.height * vw

\* the quantized frame is within half a device pixel per side of the exact
\* aspect ratio
C10_FrameAspect ==
    (mpc = "capturing" /\ pc \in {"framed", "solve", "iter", "solved"})
        => 2 * Abs(cw * vh - ch * vw) <= OneOverDpr * (vw + vh)

\* clamp_crop never enlarges a side and keeps the sides of a frame that lies
\* inside the page
C10_ClampKeeps ==
    (Capturing("solved") /\ pc' = "shot")
        => /\ cw' <= cw /\ ch' <= ch
           /\ x + cw <= page_w => cw' = cw
           /\ y + ch <= page_h => ch' = ch

\* C10 amended: the frame has the frame's aspect ratio up to quantization
\* (each side within half a device pixel of the exact ratio), and the crop
\* that is captured has the sides of that frame unless clamp_crop had to
\* shrink them to the page.
C10_AspectUpToQuantization ==
    /\ []C10_FrameAspect
    /\ [][C10_ClampKeeps]_vars

\* a crop inside the page whose sides are not in the frame's ratio
C10_Witness ==
    /\ Capturing("shot")
    /\ clip.x + clip.width <= page_w /\ clip.y + clip.height <= page_h
    /\ clip.width * vh # clip.height * vw

\* past the check of line 335 the measured rectangle has positive area
C11_OnlyRenderable ==
    (mpc = "capturing" /\ pc \in {"framed", "solve", "iter", "solved", "shot", "element"})
        => r.present /\ r.w > 0 /\ r.h > 0

\* the step that rejects a match at line 336 goes on with the next match of
\* the same page and leaves the records, the files and the page as they are
C11_SkipStep ==
    (Capturing("for_marks") /\ pc' = "for_marks" /\ j' # j)
        => /\ j' = j + 1 /\ i' = i
           /\ saved' = saved /\ files' = files
           /\ body_pad' = body_pad /\ overlay' = overlay

\* C11: a match whose rectangle is missing or has width <= 0 or height <= 0
\* is rejected: nothing is captured or recorded for it, no padding or
\* overlay is injected for it, and the next match of the page is taken.
C11_NotRenderable ==
    /\ []C11_OnlyRenderable
    /\ [][C11_SkipStep]_vars

\* the first of two matches was rejected: nothing recorded, nothing written,
\* the page untouched, the second match is next
C11_Witness ==
    /\ Capturing("for_marks") /\ ~args.pad_to_center
    /\ mark_ids = 2 /\ j = 2
    /\ saved = <<>> /\ files = <<>>
    /\ body_pad = NoPad /\ ~overlay

\* pad_tries counts, for the match at hand, the injections of body padding,
\* each followed by one more GET_RECT_JS: there is never a second one
C12_OneTry == pad_tries <= 1

\* the step that gives the match up after the padding (line 371) goes on with
\* the next match of the same page, with nothing captured or recorded
C12_AbandonStep ==
    (Capturing("framed") /\ pc' = "for_marks")
        => /\ j' = j + 1 /\ i' = i
           /\ saved' = saved /\ files' = files

\* the padding changes only in the padding step of a match, and a load or a
\* new browser page clears it
C12_PadStep ==
    body_pad' # body_pad
        => \/ Capturing("framed") /\ pad_tries = 0
           \/ body_pad' = NoPad

\* C12: per match there is at most one padding injection and one more
\* measurement before the solve; if that measurement gives no rectangle or
\* no area, the match is given up with no capture and no record and the
\* next match is taken.
C12_SingleRetry ==
    /\ []C12_OneTry
    /\ [][C12_AbandonStep /\ C12_PadStep]_vars

\* the padding was injected and the match measured again, once, and the
\* solve is next
C12_Witness ==
    /\ Capturing("solve") /\ args.pad_to_center
    /\ pad_tries = 1 /\ body_pad # NoPad

\* the records taken on the page of search result p, in all batches
RecordsOfPage(p) ==
    LET all == images \o saved
    IN {k \in 1..Len(all) : all[k].path.title = p}

\* C13: for every page and every setting of the other options, the number
\* of records appended for the page is at most max_matches_per_page (stated
\* here for a bound of at least 1).
C13_PerPageBound ==
    args.max_matches_per_page >= 1
        => \A p \in 1..(offset + pages) :
               Cardinality(RecordsOfPage(p)) <= args.max_matches_per_page

====
